---------------------------- MODULE Spec2Model ----------------------------
(***************************************************************************)
(* mresource: file-based resource key allocator.                           *)
(*                                                                         *)
(* The resource file is modelled as its sequence of bytes.  Every process  *)
(* (one per invocation) goes through obtain_resource, release_resource,    *)
(* create_resource_file or append_resource_file of mresource_actions.c     *)
(* one system-level step at a time: fopen, the                             *)
(* blocking fcntl(F_SETLKW), the fgets scan, the buffered fprintf of the   *)
(* status character, sleep, fcntl(F_SETLK, unlock) and fclose, which is    *)
(* where stdio writes the buffered character to the file.                  *)
(***************************************************************************)
EXTENDS Integers, Sequences, FiniteSets, TLC

(***************************************************************************)
(* Program constants                                                       *)
(***************************************************************************)
MAX_LINE_LEN == 1024

SIGNAL_CHAR == "!"

DESIGNAL_CHAR == " "

NEWLINE == "\n"

\* the byte a write past the end of the file leaves in the gap
NUL == "NUL"

NO_ERROR == 0

FILE_NOT_OPEN == 1

NOT_FOUND == 2

ARGUMENT_ERROR == 3

TIME_OUT == 4

INT_MAX == 2147483647

(***************************************************************************)
(* Bounds of the model                                                     *)
(***************************************************************************)
\* number of invocations that may run concurrently
NProcs == 2

\* records in an initial resource file
MaxRecs == 3

\* keys asked for by one obtain call
MaxNKeys == 3

\* largest finite timeout (seconds) of an obtain call
MaxTimeout == 3

\* largest poll interval (seconds)
MaxPoll == 2

\* largest delay (seconds) of a release call
MaxDelay == 1

\* cap on retry_count, which the code lets run up to INT_MAX when timeout = 0
MaxPolls == 4

\* obtain/release cycles of the round-trip driver
MaxCycles == 2

Procs == 1..NProcs

NoProc == 0

Keys == {<<"a">>, <<"b">>}

Statuses == {DESIGNAL_CHAR, SIGNAL_CHAR}

(***************************************************************************)
(* The record format: "%c%s\n" of status character and key                 *)
(***************************************************************************)
FormatLine(st, key) == <<st>> \o key \o <<NEWLINE>>

RECURSIVE FileOfRecords(_)
\* the bytes of a file holding the given <<status, key>> records
FileOfRecords(recs) ==
    IF recs = <<>> THEN <<>>
    ELSE FormatLine(Head(recs)[1], Head(recs)[2]) \o FileOfRecords(Tail(recs))

RecordSeqs(n) == UNION {[1..k -> Statuses \X Keys] : k \in 0..n}

Files(n) == {FileOfRecords(r) : r \in RecordSeqs(n)}

(***************************************************************************)
(* stdio as the two scans use it                                           *)
(***************************************************************************)
Min(S) == CHOOSE x \in S : \A y \in S : x <= y

\* fgets(line, sizeof(line), file) with the file position at offset pos:
\* null is checkline == NULL, eof is feof(file) afterwards, next the new offset
FGets(f, pos) ==
    IF pos >= Len(f)
    THEN [line |-> <<>>, null |-> TRUE, eof |-> TRUE, next |-> pos]
    ELSE LET nls == {j \in (pos + 1)..Len(f) : f[j] = NEWLINE}
             full == pos + MAX_LINE_LEN
         IN  IF nls # {} /\ Min(nls) <= full
             THEN [line |-> SubSeq(f, pos + 1, Min(nls)), null |-> FALSE,
                   eof |-> FALSE, next |-> Min(nls)]
             ELSE IF Len(f) >= full
             THEN [line |-> SubSeq(f, pos + 1, full), null |-> FALSE,
                   eof |-> FALSE, next |-> full]
             ELSE [line |-> SubSeq(f, pos + 1, Len(f)), null |-> FALSE,
                   eof |-> TRUE, next |-> Len(f)]

\* if (strlen(line) > 0 && line[strlen(line)-1] == '\n') line[strlen(line)-1] = '\0'
StripNewline(line) ==
    IF Len(line) > 0 /\ line[Len(line)] = NEWLINE
    THEN SubSeq(line, 1, Len(line) - 1)
    ELSE line

\* line + 1
AfterStatus(line) == IF Len(line) > 0 THEN Tail(line) ELSE <<>>

\* the flush of one buffered character written at byte offset off
WriteAt(f, off, ch) ==
    IF off < Len(f)
    THEN [f EXCEPT ![off + 1] = ch]
    ELSE f \o [k \in 1..(off - Len(f)) |-> NUL] \o <<ch>>

(***************************************************************************)
(* obtain_resource: the scan for the first line not marked as used         *)
(***************************************************************************)
\* the loop condition's last conjunct: line[0] == SIGNAL_CHAR
ObtainSkips(line) == Len(line) > 0 /\ line[1] = SIGNAL_CHAR

RECURSIVE ObtainScanFrom_TellAfter(_, _)
\* mutant: ftell is called after fgets, so the offset is that of the next line
ObtainScanFrom_TellAfter(f, pos) ==
    LET r == FGets(f, pos)
    IN  IF ~r.null /\ ~r.eof /\ ObtainSkips(r.line)
        THEN ObtainScanFrom_TellAfter(f, r.next)
        ELSE [file_pointer |-> r.next, line |-> r.line, eof |-> r.eof]

RECURSIVE ObtainScanFrom(_, _)
\* do { file_pointer = ftell(file); checkline = fgets(...); }
\* while (checkline != NULL && !feof(file) && line[0] == SIGNAL_CHAR);
ObtainScanFrom(f, pos) ==
    LET r == FGets(f, pos)
    IN  IF ~r.null /\ ~r.eof /\ ObtainSkips(r.line)
        THEN ObtainScanFrom(f, r.next)
        ELSE [file_pointer |-> pos, line |-> r.line, eof |-> r.eof]

ObtainScan(f) == ObtainScanFrom(f, 0)

\* a + b in 32-bit signed int arithmetic, wrapping around
Add32(a, b) ==
    IF a > 0 /\ b > INT_MAX - a THEN (a - INT_MAX) + (b - INT_MAX) - 2
    ELSE IF a < 0 /\ b < (-INT_MAX - 1) - a THEN (a + INT_MAX) + (b + INT_MAX) + 2
    ELSE a + b

\* C's integer division by b > 0, which truncates towards zero
CDiv(a, b) ==
    IF a >= 0 THEN a \div b
    ELSE (a \div b) + (IF a % b = 0 THEN 0 ELSE 1)

\* mutant: timeout = 0 is not special and leaves no retry
MaxRetries_ZeroIsNoRetry(timeout, polltime) ==
    CDiv(Add32(Add32(timeout, polltime), -1), polltime)

\* int max_retries = timeout?((timeout+polltime-1)/polltime):INT_MAX;
MaxRetries(timeout, polltime) ==
    IF timeout # 0
    THEN CDiv(Add32(Add32(timeout, polltime), -1), polltime)
    ELSE INT_MAX

\* mutant: retry_count <= max_retries
CanRetry_Inclusive(rc, timeout, polltime) == rc <= MaxRetries(timeout, polltime)

\* if (retry_count < max_retries)
CanRetry(rc, timeout, polltime) == rc < MaxRetries(timeout, polltime)

\* mutant: the loop over the keys does not test exitcode
ObtainContinues_IgnoresError(idx, nkeys, ec) == idx < nkeys

\* for (int i = 0; i < nkeys && exitcode == 0; i++)
ObtainContinues(idx, nkeys, ec) == idx < nkeys /\ ec = NO_ERROR

(***************************************************************************)
(* release_resource: the scan for the first used line with the key         *)
(***************************************************************************)
\* mutant: only the key is compared, whatever the status character
ReleaseSkips_AnyStatus(line, key) == AfterStatus(line) # key

\* strcmp(line+1, keys[i]) != 0 || strncmp(line, SIGNAL_CHAR_STR, 1) != 0
ReleaseSkips(line, key) ==
    \/ AfterStatus(line) # key
    \/ ~(Len(line) > 0 /\ line[1] = SIGNAL_CHAR)

RECURSIVE ReleaseScanFrom_TellAfter(_, _, _)
\* mutant: ftell is called after fgets, so the offset is that of the next line
ReleaseScanFrom_TellAfter(f, pos, key) ==
    LET r == FGets(f, pos)
        line == StripNewline(r.line)
    IN  IF ~r.null /\ ~r.eof /\ ReleaseSkips(line, key)
        THEN ReleaseScanFrom_TellAfter(f, r.next, key)
        ELSE [file_pointer |-> r.next, line |-> line, eof |-> r.eof]

RECURSIVE ReleaseScanFrom(_, _, _)
\* do { file_pointer = ftell(file); checkline = fgets(...); strip the '\n' }
\* while (checkline != NULL && !feof(file) && (the line is not the one));
ReleaseScanFrom(f, pos, key) ==
    LET r == FGets(f, pos)
        line == StripNewline(r.line)
    IN  IF ~r.null /\ ~r.eof /\ ReleaseSkips(line, key)
        THEN ReleaseScanFrom(f, r.next, key)
        ELSE [file_pointer |-> pos, line |-> line, eof |-> r.eof]

\* fseek(file, 0, SEEK_SET) and the scan that follows
ReleaseScan(f, key) == ReleaseScanFrom(f, 0, key)

RECURSIVE BitOr(_, _)
\* a | b
BitOr(a, b) ==
    IF a = 0 THEN b
    ELSE IF b = 0 THEN a
    ELSE 2 * BitOr(a \div 2, b \div 2) + (IF a % 2 = 1 \/ b % 2 = 1 THEN 1 ELSE 0)

\* mutant: exitcode = NOT_FOUND  or  exitcode = NO_ERROR
ReleaseExit_Overwrites(ec, eof) == IF eof THEN NOT_FOUND ELSE NO_ERROR

\* exitcode |= NOT_FOUND  or  exitcode |= NO_ERROR
ReleaseExit(ec, eof) == BitOr(ec, IF eof THEN NOT_FOUND ELSE NO_ERROR)

(***************************************************************************)
(* State                                                                   *)
(***************************************************************************)
VARIABLES
    file,         \* the bytes of the resource file
    openable,     \* whether fopen of the file succeeds
    lock,         \* the process holding the whole-file fcntl lock, or NoProc
    op,           \* per process: the call it makes and its arguments
    pc,           \* per process: its position in the call
    idx,          \* per process: the loop variable i over the keys
    retry_count,  \* per process: obtain's retry_count
    repeat,       \* per process: obtain's repeat
    exitcode,     \* per process: exitcode
    pending,      \* per process: the character in the stdio buffer, not yet written
    caller,       \* per process: the invoking process of a release
    child,        \* per process: the intermediate child of a delayed release
    ret,          \* per process: what the invoking process returned
    got,          \* history: offset, printed text and file read, per key obtained
    scans,        \* history: locked scans made for the key being obtained
    openFailed,   \* history: an fopen of this obtain, create or append call failed
    tried,        \* history: offset matched (or -1) and file read, per key released
    holds,        \* history: <<process, offset>> obtained and not released since
    file0,        \* history: the file's content in the initial state
    cycles        \* round-trip driver: completed obtain/release cycles

vars == <<file, openable, lock, op, pc, idx, retry_count, repeat,
          exitcode, pending, caller, child, ret, got, scans, openFailed,
          tried, holds, file0, cycles>>

NoWrite == [off |-> -1, ch |-> ""]

\* what a process that has not returned yet has returned
NoRet == <<>>

NoOp == [type |-> "none", nkeys |-> 0, timeout |-> 0, polltime |-> 1,
         keys |-> <<>>, delay |-> 0]

ObtainOp(n, t, pt) == [type |-> "obtain", nkeys |-> n, timeout |-> t,
                       polltime |-> pt, keys |-> <<>>, delay |-> 0]

ReleaseOp(ks, d) == [type |-> "release", nkeys |-> Len(ks), timeout |-> 0,
                     polltime |-> 1, keys |-> ks, delay |-> d]

CreateOp(ks) == [type |-> "create", nkeys |-> Len(ks), timeout |-> 0,
                 polltime |-> 1, keys |-> ks, delay |-> 0]

AppendOp(ks) == [type |-> "append", nkeys |-> Len(ks), timeout |-> 0,
                 polltime |-> 1, keys |-> ks, delay |-> 0]

\* the position a call starts at
StartPc(o) ==
    CASE o.type = "obtain" -> IF ObtainContinues(0, o.nkeys, NO_ERROR)
                              THEN "o_open" ELSE "done"
      [] o.type = "release" -> "r_check"
      [] o.type = "create" -> "c_open"
      [] o.type = "append" -> "a_open"
      [] OTHER -> "idle"

InitWith(f, ops, canOpen) ==
    /\ file = f
    /\ file0 = f
    /\ openable = canOpen
    /\ lock = NoProc
    /\ op = ops
    /\ pc = [p \in Procs |-> StartPc(ops[p])]
    /\ idx = [p \in Procs |-> 0]
    /\ retry_count = [p \in Procs |-> 0]
    /\ repeat = [p \in Procs |-> FALSE]
    /\ exitcode = [p \in Procs |-> NO_ERROR]
    /\ pending = [p \in Procs |-> NoWrite]
    /\ caller = [p \in Procs |-> "running"]
    /\ child = [p \in Procs |-> "none"]
    /\ ret = [p \in Procs |-> NoRet]
    /\ got = [p \in Procs |-> <<>>]
    /\ scans = [p \in Procs |-> 0]
    /\ openFailed = [p \in Procs |-> FALSE]
    /\ tried = [p \in Procs |-> <<>>]
    /\ holds = {}
    /\ cycles = 0

(***************************************************************************)
(* obtain_resource, one step at a time                                     *)
(***************************************************************************)
\* the end of the do-while for one key: i++ and the for loop's test
ObtainEndKey(p, ec) ==
    /\ exitcode' = [exitcode EXCEPT ![p] = ec]
    /\ idx' = [idx EXCEPT ![p] = @ + 1]
    /\ IF ObtainContinues(idx[p] + 1, op[p].nkeys, ec)
       THEN /\ pc' = [pc EXCEPT ![p] = "o_open"]
            /\ retry_count' = [retry_count EXCEPT ![p] = 0]
            /\ repeat' = [repeat EXCEPT ![p] = FALSE]
            /\ scans' = [scans EXCEPT ![p] = 0]
            /\ UNCHANGED ret
       ELSE /\ pc' = [pc EXCEPT ![p] = "done"]
            /\ ret' = [ret EXCEPT ![p] = <<ec>>]
            /\ UNCHANGED <<retry_count, repeat, scans>>

\* file = fopen(filename, "r+") succeeds
ObtainOpen(p) ==
    /\ pc[p] = "o_open"
    /\ openable
    /\ pc' = [pc EXCEPT ![p] = "o_lock"]
    /\ UNCHANGED <<file, openable, lock, op, idx, retry_count, repeat,
                   exitcode, pending, caller, child, ret, got, scans,
                   openFailed, tried, holds, file0, cycles>>

\* file = fopen(filename, "r+") fails: exitcode = FILE_NOT_OPEN, and the
\* do-while ends or not as repeat was left by the attempt before
ObtainOpenFails(p) ==
    /\ pc[p] = "o_open"
    /\ ~openable
    /\ openFailed' = [openFailed EXCEPT ![p] = TRUE]
    /\ IF repeat[p]
       THEN /\ exitcode' = [exitcode EXCEPT ![p] = FILE_NOT_OPEN]
            /\ UNCHANGED <<pc, idx, retry_count, repeat, scans, ret>>
       ELSE ObtainEndKey(p, FILE_NOT_OPEN)
    /\ UNCHANGED <<file, openable, lock, op, pending, caller, child,
                   got, tried, holds, file0, cycles>>

\* fcntl(file_descriptor, F_SETLKW, &set_lock) returns
ObtainLock(p) ==
    /\ pc[p] = "o_lock"
    /\ lock = NoProc
    /\ lock' = p
    /\ pc' = [pc EXCEPT ![p] = "o_scan"]
    /\ UNCHANGED <<file, openable, op, idx, retry_count, repeat,
                   exitcode, pending, caller, child, ret, got, scans,
                   openFailed, tried, holds, file0, cycles>>

\* the scan stops at a line: fseek, fprintf(file, "%c", SIGNAL_CHAR) into the
\* buffer, printf("%s", line + 1)
ObtainFound(p) ==
    /\ pc[p] = "o_scan"
    /\ LET r == ObtainScan(file)
       IN  /\ ~r.eof
           /\ pending' = [pending EXCEPT
                            ![p] = [off |-> r.file_pointer, ch |-> SIGNAL_CHAR]]
           /\ got' = [got EXCEPT
                        ![p] = Append(@, [off |-> r.file_pointer,
                                          text |-> AfterStatus(r.line),
                                          seen |-> file])]
           /\ holds' = holds \cup {<<p, r.file_pointer>>}
    /\ exitcode' = [exitcode EXCEPT ![p] = NO_ERROR]
    /\ repeat' = [repeat EXCEPT ![p] = FALSE]
    /\ scans' = [scans EXCEPT ![p] = @ + 1]
    /\ pc' = [pc EXCEPT ![p] = "o_unlock"]
    /\ UNCHANGED <<file, openable, lock, op, idx, retry_count,
                   caller, child, ret, openFailed, tried, file0, cycles>>

\* the scan reaches the end of the file and retries are left: sleep(polltime)
ObtainRetry(p) ==
    /\ pc[p] = "o_scan"
    /\ ObtainScan(file).eof
    /\ CanRetry(retry_count[p], op[p].timeout, op[p].polltime)
    /\ retry_count[p] < MaxPolls
    /\ scans' = [scans EXCEPT ![p] = @ + 1]
    /\ pc' = [pc EXCEPT ![p] = "o_sleep"]
    /\ UNCHANGED <<file, openable, lock, op, idx, retry_count, repeat,
                   exitcode, pending, caller, child, ret, got, openFailed,
                   tried, holds, file0, cycles>>

\* the scan reaches the end of the file and no retry is left
ObtainTimeOut(p) ==
    /\ pc[p] = "o_scan"
    /\ ObtainScan(file).eof
    /\ ~CanRetry(retry_count[p], op[p].timeout, op[p].polltime)
    /\ exitcode' = [exitcode EXCEPT ![p] = TIME_OUT]
    /\ repeat' = [repeat EXCEPT ![p] = FALSE]
    /\ scans' = [scans EXCEPT ![p] = @ + 1]
    /\ pc' = [pc EXCEPT ![p] = "o_unlock"]
    /\ UNCHANGED <<file, openable, lock, op, idx, retry_count,
                   pending, caller, child, ret, got, openFailed, tried, holds,
                   file0, cycles>>

\* mutant: the next attempt starts right after the sleep, with no unlock
ObtainWake_Reopens(p) ==
    /\ pc[p] = "o_sleep"
    /\ retry_count' = [retry_count EXCEPT ![p] = @ + 1]
    /\ repeat' = [repeat EXCEPT ![p] = TRUE]
    /\ pc' = [pc EXCEPT ![p] = "o_open"]
    /\ UNCHANGED <<file, openable, lock, op, idx, exitcode, pending,
                   caller, child, ret, got, scans, openFailed, tried, holds,
                   file0, cycles>>

\* mutant: the attempt after the sleep is not asked for
ObtainWake_GivesUp(p) ==
    /\ pc[p] = "o_sleep"
    /\ retry_count' = [retry_count EXCEPT ![p] = @ + 1]
    /\ repeat' = [repeat EXCEPT ![p] = FALSE]
    /\ pc' = [pc EXCEPT ![p] = "o_unlock"]
    /\ UNCHANGED <<file, openable, lock, op, idx, exitcode, pending,
                   caller, child, ret, got, scans, openFailed, tried, holds,
                   file0, cycles>>

\* sleep(polltime) returns: retry_count++; repeat = true
ObtainWake(p) ==
    /\ pc[p] = "o_sleep"
    /\ retry_count' = [retry_count EXCEPT ![p] = @ + 1]
    /\ repeat' = [repeat EXCEPT ![p] = TRUE]
    /\ pc' = [pc EXCEPT ![p] = "o_unlock"]
    /\ UNCHANGED <<file, openable, lock, op, idx, exitcode, pending,
                   caller, child, ret, got, scans, openFailed, tried, holds,
                   file0, cycles>>

\* fcntl(file_descriptor, F_SETLK, &unset_lock)
ObtainUnlock(p) ==
    /\ pc[p] = "o_unlock"
    /\ lock' = NoProc
    /\ pc' = [pc EXCEPT ![p] = "o_close"]
    /\ UNCHANGED <<file, openable, op, idx, retry_count, repeat,
                   exitcode, pending, caller, child, ret, got, scans,
                   openFailed, tried, holds, file0, cycles>>

\* fclose(file) writes the buffered character, then while (repeat)
ObtainClose(p) ==
    /\ pc[p] = "o_close"
    /\ file' = IF pending[p] = NoWrite THEN file
               ELSE WriteAt(file, pending[p].off, pending[p].ch)
    /\ pending' = [pending EXCEPT ![p] = NoWrite]
    /\ IF repeat[p]
       THEN /\ pc' = [pc EXCEPT ![p] = "o_open"]
            /\ UNCHANGED <<idx, retry_count, repeat, exitcode, scans, ret>>
       ELSE ObtainEndKey(p, exitcode[p])
    /\ UNCHANGED <<openable, lock, op, caller, child, got,
                   openFailed, tried, holds, file0, cycles>>

ObtainStep(p) ==
    \/ ObtainOpen(p)
    \/ ObtainOpenFails(p)
    \/ ObtainLock(p)
    \/ ObtainFound(p)
    \/ ObtainRetry(p)
    \/ ObtainTimeOut(p)
    \/ ObtainWake(p)
    \/ ObtainUnlock(p)
    \/ ObtainClose(p)

(***************************************************************************)
(* release_resource, one step at a time.  With delay > 0 the process that *)
(* goes on to the locked scan is the second child of the double fork; the  *)
(* invoking process and the first child are followed in caller and child.  *)
(***************************************************************************)
\* the process that runs the scan returns: it is the invoking process only
\* when there was no fork
ReleaseReturn(p, ec) ==
    /\ pc' = [pc EXCEPT ![p] = "done"]
    /\ IF op[p].delay > 0
       THEN UNCHANGED <<ret, caller>>
       ELSE /\ ret' = [ret EXCEPT ![p] = <<ec>>]
            /\ caller' = [caller EXCEPT ![p] = "returned"]

\* the check that the file exists: fopen succeeds, fclose
ReleaseCheck(p) ==
    /\ pc[p] = "r_check"
    /\ openable
    /\ pc' = [pc EXCEPT ![p] = IF op[p].delay > 0 THEN "r_fork" ELSE "r_delay"]
    /\ UNCHANGED <<file, openable, lock, op, idx, retry_count, repeat,
                   exitcode, pending, caller, child, ret, got, scans,
                   openFailed, tried, holds, file0, cycles>>

\* mutant: no check before the fork and the delay
ReleaseCheckFails_NoCheck(p) ==
    /\ pc[p] = "r_check"
    /\ ~openable
    /\ pc' = [pc EXCEPT ![p] = IF op[p].delay > 0 THEN "r_fork" ELSE "r_delay"]
    /\ UNCHANGED <<file, openable, lock, op, idx, retry_count, repeat,
                   exitcode, pending, caller, child, ret, got, scans,
                   openFailed, tried, holds, file0, cycles>>

\* the check that the file exists: return FILE_NOT_OPEN
ReleaseCheckFails(p) ==
    /\ pc[p] = "r_check"
    /\ ~openable
    /\ pc' = [pc EXCEPT ![p] = "done"]
    /\ ret' = [ret EXCEPT ![p] = <<FILE_NOT_OPEN>>]
    /\ caller' = [caller EXCEPT ![p] = "returned"]
    /\ UNCHANGED <<file, openable, lock, op, idx, retry_count, repeat,
                   exitcode, pending, child, got, scans, openFailed, tried,
                   holds, file0, cycles>>

\* the first fork(): the invoking process goes to waitpid
ReleaseFork(p) ==
    /\ pc[p] = "r_fork"
    /\ caller' = [caller EXCEPT ![p] = "waiting"]
    /\ child' = [child EXCEPT ![p] = "running"]
    /\ pc' = [pc EXCEPT ![p] = "r_fork2"]
    /\ UNCHANGED <<file, openable, lock, op, idx, retry_count, repeat,
                   exitcode, pending, ret, got, scans, openFailed, tried,
                   holds, file0, cycles>>

\* the second fork(), in the first child: the second child goes on
ReleaseFork2(p) ==
    /\ pc[p] = "r_fork2"
    /\ child' = [child EXCEPT ![p] = "returning"]
    /\ pc' = [pc EXCEPT ![p] = "r_delay"]
    /\ UNCHANGED <<file, openable, lock, op, idx, retry_count, repeat,
                   exitcode, pending, caller, ret, got, scans, openFailed,
                   tried, holds, file0, cycles>>

\* the first child: return NO_ERROR, and the process ends
ReleaseChildReturn(p) ==
    /\ child[p] = "returning"
    /\ child' = [child EXCEPT ![p] = "exited"]
    /\ UNCHANGED <<file, openable, lock, op, pc, idx, retry_count,
                   repeat, exitcode, pending, caller, ret, got, scans,
                   openFailed, tried, holds, file0, cycles>>

\* mutant: the invoking process waits for the process that does the release
ReleaseWait_ForRelease(p) ==
    /\ caller[p] = "waiting"
    /\ child[p] = "exited"
    /\ pc[p] = "done"
    /\ caller' = [caller EXCEPT ![p] = "returned"]
    /\ ret' = [ret EXCEPT ![p] = <<NO_ERROR>>]
    /\ UNCHANGED <<file, openable, lock, op, pc, idx, retry_count,
                   repeat, exitcode, pending, child, got, scans, openFailed,
                   tried, holds, file0, cycles>>

\* mutant: the invoking process returns without waitpid
ReleaseWait_NoWait(p) ==
    /\ caller[p] = "waiting"
    /\ caller' = [caller EXCEPT ![p] = "returned"]
    /\ ret' = [ret EXCEPT ![p] = <<NO_ERROR>>]
    /\ UNCHANGED <<file, openable, lock, op, pc, idx, retry_count,
                   repeat, exitcode, pending, child, got, scans, openFailed,
                   tried, holds, file0, cycles>>

\* waitpid(pid, NULL, 0) returns in the invoking process: return NO_ERROR
ReleaseWait(p) ==
    /\ caller[p] = "waiting"
    /\ child[p] = "exited"
    /\ caller' = [caller EXCEPT ![p] = "returned"]
    /\ ret' = [ret EXCEPT ![p] = <<NO_ERROR>>]
    /\ UNCHANGED <<file, openable, lock, op, pc, idx, retry_count,
                   repeat, exitcode, pending, child, got, scans, openFailed,
                   tried, holds, file0, cycles>>

\* sleep(delay)
ReleaseDelay(p) ==
    /\ pc[p] = "r_delay"
    /\ pc' = [pc EXCEPT ![p] = "r_open"]
    /\ UNCHANGED <<file, openable, lock, op, idx, retry_count, repeat,
                   exitcode, pending, caller, child, ret, got, scans,
                   openFailed, tried, holds, file0, cycles>>

\* file = fopen(filename, "r+") succeeds
ReleaseOpen(p) ==
    /\ pc[p] = "r_open"
    /\ openable
    /\ pc' = [pc EXCEPT ![p] = "r_lock"]
    /\ UNCHANGED <<file, openable, lock, op, idx, retry_count, repeat,
                   exitcode, pending, caller, child, ret, got, scans,
                   openFailed, tried, holds, file0, cycles>>

\* file = fopen(filename, "r+") fails: exitcode = FILE_NOT_OPEN
ReleaseOpenFails(p) ==
    /\ pc[p] = "r_open"
    /\ ~openable
    /\ exitcode' = [exitcode EXCEPT ![p] = FILE_NOT_OPEN]
    /\ ReleaseReturn(p, FILE_NOT_OPEN)
    /\ UNCHANGED <<file, openable, lock, op, idx, retry_count, repeat,
                   pending, child, got, scans, openFailed, tried, holds,
                   file0, cycles>>

\* fcntl(file_descriptor, F_SETLKW, &set_lock) returns
ReleaseLock(p) ==
    /\ pc[p] = "r_lock"
    /\ lock = NoProc
    /\ lock' = p
    /\ pc' = [pc EXCEPT ![p] = "r_key"]
    /\ UNCHANGED <<file, openable, op, idx, retry_count, repeat,
                   exitcode, pending, caller, child, ret, got, scans,
                   openFailed, tried, holds, file0, cycles>>

\* the file once fseek has written the buffered character of the key before
Flushed(f, w) == IF w = NoWrite THEN f ELSE WriteAt(f, w.off, w.ch)

\* for (int i = 0; i < nkeys; i++)
ReleaseContinues(i, nkeys) == i < nkeys

\* one turn of the loop over the keys: fseek(file, 0, SEEK_SET), the scan,
\* and on a match fseek, fprintf(file, "%c", DESIGNAL_CHAR) into the buffer
ReleaseKey(p) ==
    /\ pc[p] = "r_key"
    /\ LET f == Flushed(file, pending[p])
           r == ReleaseScan(f, op[p].keys[idx[p] + 1])
       IN  /\ file' = f
           /\ pending' = [pending EXCEPT
                  ![p] = IF r.eof THEN NoWrite
                         ELSE [off |-> r.file_pointer, ch |-> DESIGNAL_CHAR]]
           /\ exitcode' = [exitcode EXCEPT ![p] = ReleaseExit(@, r.eof)]
           /\ tried' = [tried EXCEPT
                  ![p] = Append(@, [off |-> IF r.eof THEN -1 ELSE r.file_pointer,
                                    seen |-> f])]
           /\ holds' = IF r.eof THEN holds
                       ELSE {h \in holds : h[2] # r.file_pointer}
    /\ idx' = [idx EXCEPT ![p] = @ + 1]
    /\ pc' = [pc EXCEPT ![p] = IF ReleaseContinues(idx[p] + 1, op[p].nkeys)
                               THEN "r_key" ELSE "r_unlock"]
    /\ UNCHANGED <<openable, lock, op, retry_count, repeat, caller,
                   child, ret, got, scans, openFailed, file0, cycles>>

\* fcntl(file_descriptor, F_SETLK, &unset_lock)
ReleaseUnlock(p) ==
    /\ pc[p] = "r_unlock"
    /\ lock' = NoProc
    /\ pc' = [pc EXCEPT ![p] = "r_close"]
    /\ UNCHANGED <<file, openable, op, idx, retry_count, repeat,
                   exitcode, pending, caller, child, ret, got, scans,
                   openFailed, tried, holds, file0, cycles>>

\* fclose(file) writes the buffered character; return exitcode
ReleaseClose(p) ==
    /\ pc[p] = "r_close"
    /\ file' = Flushed(file, pending[p])
    /\ pending' = [pending EXCEPT ![p] = NoWrite]
    /\ ReleaseReturn(p, exitcode[p])
    /\ UNCHANGED <<openable, lock, op, idx, retry_count, repeat,
                   exitcode, child, got, scans, openFailed, tried, holds,
                   file0, cycles>>

\* the double fork of a release with delay > 0
ReleaseDetach(p) ==
    \/ ReleaseFork(p)
    \/ ReleaseFork2(p)
    \/ ReleaseChildReturn(p)
    \/ ReleaseWait(p)

\* the steps every release takes
ReleaseNow(p) ==
    \/ ReleaseCheck(p)
    \/ ReleaseCheckFails(p)
    \/ ReleaseDelay(p)
    \/ ReleaseOpen(p)
    \/ ReleaseOpenFails(p)
    \/ ReleaseLock(p)
    \/ ReleaseKey(p)
    \/ ReleaseUnlock(p)
    \/ ReleaseClose(p)

ReleaseStep(p) == ReleaseNow(p) \/ ReleaseDetach(p)

(***************************************************************************)
(* create_resource_file and append_resource_file.  The lines printed with  *)
(* fprintf stay in the stdio buffer (they are the lines of the keys, so    *)
(* the buffer is not kept in a variable) and are written by fclose.        *)
(***************************************************************************)
RECURSIVE KeyLines(_)
\* for (i = 0; i < argc; i++) fprintf(f, "%c%s\n", DESIGNAL_CHAR, argv[i]);
KeyLines(keys) ==
    IF keys = <<>> THEN <<>>
    ELSE FormatLine(DESIGNAL_CHAR, Head(keys)) \o KeyLines(Tail(keys))

\* mutant: the file is opened without truncation
Truncated_Keeps(f) == f

\* fopen(filename, "w") on an existing file: truncated to zero length
Truncated(f) == <<>>

\* fclose of a stream opened with "w": the buffer is written from offset 0
WriteFromStart(f, buf) == buf \o SubSeq(f, Len(buf) + 1, Len(f))

\* mutant: the stream is not in append mode and writes from offset 0
WriteAtEnd_FromStart(f, buf) == WriteFromStart(f, buf)

\* fclose of a stream opened with "a": the buffer is written at the end of
\* the file as it is then
WriteAtEnd(f, buf) == f \o buf

\* f = fopen(filename, "w") succeeds, and the loop of fprintf fills the buffer
CreateOpen(p) ==
    /\ pc[p] = "c_open"
    /\ openable
    /\ file' = Truncated(file)
    /\ idx' = [idx EXCEPT ![p] = op[p].nkeys]
    /\ pc' = [pc EXCEPT ![p] = "c_close"]
    /\ UNCHANGED <<openable, lock, op, retry_count, repeat, exitcode,
                   pending, caller, child, ret, got, scans, openFailed, tried,
                   holds, file0, cycles>>

\* f = fopen(filename, "w") fails: return 1
CreateOpenFails(p) ==
    /\ pc[p] = "c_open"
    /\ ~openable
    /\ openFailed' = [openFailed EXCEPT ![p] = TRUE]
    /\ ret' = [ret EXCEPT ![p] = <<FILE_NOT_OPEN>>]
    /\ pc' = [pc EXCEPT ![p] = "done"]
    /\ UNCHANGED <<file, openable, lock, op, idx, retry_count, repeat,
                   exitcode, pending, caller, child, got, scans, tried,
                   holds, file0, cycles>>

\* fclose(f) writes the buffer; return 0
CreateClose(p) ==
    /\ pc[p] = "c_close"
    /\ file' = WriteFromStart(file, KeyLines(op[p].keys))
    /\ ret' = [ret EXCEPT ![p] = <<NO_ERROR>>]
    /\ pc' = [pc EXCEPT ![p] = "done"]
    /\ UNCHANGED <<openable, lock, op, idx, retry_count, repeat, exitcode,
                   pending, caller, child, got, scans, openFailed, tried,
                   holds, file0, cycles>>

CreateStep(p) ==
    \/ CreateOpen(p)
    \/ CreateOpenFails(p)
    \/ CreateClose(p)

\* file = fopen(filename, "a") succeeds
AppendOpen(p) ==
    /\ pc[p] = "a_open"
    /\ openable
    /\ pc' = [pc EXCEPT ![p] = "a_lock"]
    /\ UNCHANGED <<file, openable, lock, op, idx, retry_count, repeat,
                   exitcode, pending, caller, child, ret, got, scans,
                   openFailed, tried, holds, file0, cycles>>

\* file = fopen(filename, "a") fails: exitcode = FILE_NOT_OPEN, and while (1)
\* goes round again
AppendOpenFails(p) ==
    /\ pc[p] = "a_open"
    /\ ~openable
    /\ exitcode' = [exitcode EXCEPT ![p] = FILE_NOT_OPEN]
    /\ openFailed' = [openFailed EXCEPT ![p] = TRUE]
    /\ UNCHANGED <<file, openable, lock, op, pc, idx, retry_count, repeat,
                   pending, caller, child, ret, got, scans, tried, holds,
                   file0, cycles>>

\* fcntl(file_descriptor, F_SETLKW, &set_lock) returns
AppendLock(p) ==
    /\ pc[p] = "a_lock"
    /\ lock = NoProc
    /\ lock' = p
    /\ pc' = [pc EXCEPT ![p] = "a_write"]
    /\ UNCHANGED <<file, openable, op, idx, retry_count, repeat,
                   exitcode, pending, caller, child, ret, got, scans,
                   openFailed, tried, holds, file0, cycles>>

\* the loop of fprintf fills the buffer
AppendPrint(p) ==
    /\ pc[p] = "a_write"
    /\ idx' = [idx EXCEPT ![p] = op[p].nkeys]
    /\ pc' = [pc EXCEPT ![p] = "a_unlock"]
    /\ UNCHANGED <<file, openable, lock, op, retry_count, repeat,
                   exitcode, pending, caller, child, ret, got, scans,
                   openFailed, tried, holds, file0, cycles>>

\* fcntl(file_descriptor, F_SETLK, &unset_lock)
AppendUnlock(p) ==
    /\ pc[p] = "a_unlock"
    /\ lock' = NoProc
    /\ pc' = [pc EXCEPT ![p] = "a_close"]
    /\ UNCHANGED <<file, openable, op, idx, retry_count, repeat,
                   exitcode, pending, caller, child, ret, got, scans,
                   openFailed, tried, holds, file0, cycles>>

\* fclose(file) writes the buffer; exitcode = NO_ERROR; break; return exitcode
AppendClose(p) ==
    /\ pc[p] = "a_close"
    /\ file' = WriteAtEnd(file, KeyLines(op[p].keys))
    /\ exitcode' = [exitcode EXCEPT ![p] = NO_ERROR]
    /\ ret' = [ret EXCEPT ![p] = <<NO_ERROR>>]
    /\ pc' = [pc EXCEPT ![p] = "done"]
    /\ UNCHANGED <<openable, lock, op, idx, retry_count, repeat,
                   pending, caller, child, got, scans, openFailed, tried,
                   holds, file0, cycles>>

AppendStep(p) ==
    \/ AppendOpen(p)
    \/ AppendOpenFails(p)
    \/ AppendLock(p)
    \/ AppendPrint(p)
    \/ AppendUnlock(p)
    \/ AppendClose(p)

(***************************************************************************)
(* The environment: the file becomes unusable for fopen, or usable again   *)
(***************************************************************************)
EnvChmod ==
    /\ openable' = ~openable
    /\ UNCHANGED <<file, lock, op, pc, idx, retry_count, repeat, exitcode,
                   pending, caller, child, ret, got, scans, openFailed, tried,
                   holds, file0, cycles>>

(***************************************************************************)
(* Concurrent invocations                                                  *)
(***************************************************************************)
ConcObtains == {ObtainOp(n, t, 1) : n \in 1..2, t \in 0..1}

ConcReleases == {ReleaseOp(ks, d) : ks \in {<<k>> : k \in Keys}, d \in 0..MaxDelay}

ConcOps == {NoOp} \cup ConcObtains \cup ConcReleases

Init ==
    \E f \in Files(MaxRecs - 1), ops \in [Procs -> ConcOps] :
        InitWith(f, ops, TRUE)

Next ==
    \/ \E p \in Procs : ObtainStep(p) \/ ReleaseStep(p)
    \/ EnvChmod

Spec == Init /\ [][Next]_vars

(***************************************************************************)
(* One invocation on its own, with the full range of arguments             *)
(***************************************************************************)
KeyLists == {<<k>> : k \in Keys} \cup {<<k, l>> : k \in Keys, l \in Keys}

SoloObtains ==
    {ObtainOp(n, t, pt) : n \in 1..MaxNKeys, t \in 0..MaxTimeout, pt \in 1..MaxPoll}

SoloReleases == {ReleaseOp(ks, d) : ks \in KeyLists, d \in 0..MaxDelay}

Alone(o) == [p \in Procs |-> IF p = 1 THEN o ELSE NoOp]

InitSolo ==
    \E f \in Files(MaxRecs), o \in SoloObtains \cup SoloReleases, b \in BOOLEAN :
        InitWith(f, Alone(o), b)

SpecSolo == InitSolo /\ [][Next]_vars

(***************************************************************************)
(* The round trip: one caller obtains a key, releases the key it was       *)
(* given (delay = 0), and starts over                                      *)
(***************************************************************************)
\* the caller takes the key printed by obtain, without its line terminator,
\* and calls release with it
RoundTripRelease ==
    /\ pc[1] = "done"
    /\ op[1].type = "obtain"
    /\ ret[1] = <<NO_ERROR>>
    /\ op' = [op EXCEPT ![1] = ReleaseOp(<<StripNewline(got[1][1].text)>>, 0)]
    /\ pc' = [pc EXCEPT ![1] = "r_check"]
    /\ idx' = [idx EXCEPT ![1] = 0]
    /\ exitcode' = [exitcode EXCEPT ![1] = NO_ERROR]
    /\ ret' = [ret EXCEPT ![1] = NoRet]
    /\ caller' = [caller EXCEPT ![1] = "running"]
    /\ tried' = [tried EXCEPT ![1] = <<>>]
    /\ UNCHANGED <<file, openable, lock, retry_count, repeat, pending,
                   child, got, scans, openFailed, holds, file0, cycles>>

\* the caller starts the next cycle
RoundTripObtain ==
    /\ pc[1] = "done"
    /\ op[1].type = "release"
    /\ ret[1] = <<NO_ERROR>>
    /\ cycles < MaxCycles
    /\ cycles' = cycles + 1
    /\ \E t \in 0..1 : op' = [op EXCEPT ![1] = ObtainOp(1, t, 1)]
    /\ pc' = [pc EXCEPT ![1] = "o_open"]
    /\ idx' = [idx EXCEPT ![1] = 0]
    /\ retry_count' = [retry_count EXCEPT ![1] = 0]
    /\ repeat' = [repeat EXCEPT ![1] = FALSE]
    /\ exitcode' = [exitcode EXCEPT ![1] = NO_ERROR]
    /\ ret' = [ret EXCEPT ![1] = NoRet]
    /\ got' = [got EXCEPT ![1] = <<>>]
    /\ scans' = [scans EXCEPT ![1] = 0]
    /\ UNCHANGED <<file, openable, lock, pending, caller, child,
                   openFailed, tried, holds, file0>>

InitRoundTrip ==
    \E f \in Files(MaxRecs), t \in 0..1 :
        InitWith(f, Alone(ObtainOp(1, t, 1)), TRUE)

NextRoundTrip ==
    \/ ObtainStep(1)
    \/ ReleaseNow(1)
    \/ RoundTripRelease
    \/ RoundTripObtain
    \/ EnvChmod

SpecRoundTrip == InitRoundTrip /\ [][NextRoundTrip]_vars

(***************************************************************************)
(* The life of a file: create and append calls next to obtain and release  *)
(* calls on the same file; a caller may call create a second time          *)
(***************************************************************************)
LifeObtains == {ObtainOp(1, 1, 1)}

LifeReleases == {ReleaseOp(<<<<"a">>>>, d) : d \in 0..MaxDelay}

LifeKeyLists == {<<<<"b">>>>, <<<<"a">>, <<"b">>>>}

LifeWrites == {CreateOp(ks) : ks \in LifeKeyLists} \cup {AppendOp(ks) : ks \in LifeKeyLists}

LifeOps == {NoOp} \cup LifeObtains \cup LifeReleases \cup LifeWrites

\* the caller calls create again, with another list of keys
CreateAgain ==
    /\ pc[1] = "done"
    /\ op[1].type = "create"
    /\ cycles < MaxCycles - 1
    /\ cycles' = cycles + 1
    /\ \E ks \in LifeKeyLists \ {op[1].keys} : op' = [op EXCEPT ![1] = CreateOp(ks)]
    /\ pc' = [pc EXCEPT ![1] = "c_open"]
    /\ idx' = [idx EXCEPT ![1] = 0]
    /\ ret' = [ret EXCEPT ![1] = NoRet]
    /\ UNCHANGED <<file, openable, lock, retry_count, repeat, exitcode,
                   pending, caller, child, got, scans, openFailed, tried,
                   holds, file0>>

InitLife ==
    \E f \in Files(MaxRecs - 1), ops \in [Procs -> LifeOps] :
        InitWith(f, ops, TRUE)

NextLife ==
    \/ \E p \in Procs : ObtainStep(p) \/ ReleaseStep(p)
    \/ \E p \in Procs : CreateStep(p) \/ AppendStep(p)
    \/ CreateAgain
    \/ EnvChmod

SpecLife == InitLife /\ [][NextLife]_vars

(***************************************************************************)
(* One invocation on a file that holds records whose leading character is  *)
(* neither the Free nor the Reserved mark                                  *)
(***************************************************************************)
OtherStatus == "#"

CorruptRecordSeqs(n) ==
    UNION {[1..k -> (Statuses \cup {OtherStatus}) \X Keys] : k \in 0..n}

CorruptFiles(n) == {FileOfRecords(r) : r \in CorruptRecordSeqs(n)}

InitCorrupt ==
    \E f \in CorruptFiles(MaxRecs - 1), o \in ConcObtains \cup ConcReleases,
       b \in BOOLEAN :
        InitWith(f, Alone(o), b)

SpecCorrupt == InitCorrupt /\ [][Next]_vars

(***************************************************************************)
(* A release of one or two keys next to one obtain or release call         *)
(***************************************************************************)
InitMulti ==
    \E f \in Files(MaxRecs - 1), ks \in KeyLists,
       o \in LifeObtains \cup ConcReleases :
        InitWith(f, [p \in Procs |-> IF p = 1 THEN ReleaseOp(ks, 0)
                                     ELSE IF p = 2 THEN o ELSE NoOp], TRUE)

SpecMulti == InitMulti /\ [][Next]_vars

(***************************************************************************)
(* Releases with and without delay, with time: fork, exit and waitpid take *)
(* no time to speak of, while sleep(delay) with delay > 0 lasts seconds,   *)
(* so that sleep ends only when no step of the double fork is waiting to   *)
(* be taken.  Every process goes on running: a step that stays possible is *)
(* taken in the end.                                                       *)
(***************************************************************************)
DeferredOps == {ReleaseOp(<<<<"a">>>>, d) : d \in 1..MaxDelay}

PromptOps == {NoOp, ReleaseOp(<<<<"a">>>>, 0)}

\* the sleep of the detached process does not end before the steps that
\* take no time
Punctual(p) ==
    (pc[p] = "r_delay" /\ op[p].delay > 0) => ~ENABLED ReleaseDetach(p)

ReleaseTimed(p) == ReleaseDetach(p) \/ (ReleaseNow(p) /\ Punctual(p))

InitDeferred ==
    \E f \in Files(MaxRecs - 1), r \in DeferredOps, o \in PromptOps :
        InitWith(f, [p \in Procs |-> IF p = 1 THEN r
                                     ELSE IF p = 2 THEN o ELSE NoOp], TRUE)

NextDeferred ==
    \/ \E p \in Procs : ReleaseTimed(p)
    \/ EnvChmod

SpecDeferred ==
    /\ InitDeferred
    /\ [][NextDeferred]_vars
    /\ \A p \in Procs : WF_vars(ReleaseTimed(p))

(***************************************************************************)
(* The command line of the standalone program mresource.c: one obtain call *)
(* per key, with the timeout of -t or else INT_MAX, and the poll interval  *)
(* of -p or else 2                                                         *)
(***************************************************************************)
DEFAULT_POLLTIME == 2

\* *timeout = INT_MAX, unless -t gives it
CmdTimeouts == {INT_MAX} \cup (1..MaxTimeout) \cup {INT_MAX - 1}

\* *polltime = 2, unless -p gives it
CmdPolltimes == {DEFAULT_POLLTIME} \cup (1..MaxPoll)

InitCmd ==
    \E f \in Files(MaxRecs - 1), n \in 1..2, t \in CmdTimeouts,
       pt \in CmdPolltimes, b \in BOOLEAN :
        InitWith(f, Alone(ObtainOp(n, t, pt)), b)

NextCmd ==
    \/ \E p \in Procs : ObtainStep(p)
    \/ EnvChmod

SpecCmd == InitCmd /\ [][NextCmd]_vars

(***************************************************************************)
(* An obtain that polls next to one release with delay 0, on a file whose  *)
(* records are all Reserved.  timeout 0 makes max_retries INT_MAX: such an *)
(* obtain polls on past MaxPolls retries, and from there its retry_count   *)
(* is no longer followed (retry_count < INT_MAX has the same outcome for   *)
(* every count the obtain can reach).  The file stays openable.  Every     *)
(* process goes on running: a step of it that stays possible is taken in   *)
(* the end.  Nothing is assumed about which of two processes that want the *)
(* lock gets it.                                                           *)
(***************************************************************************)
\* lines 117-121 for an obtain without time limit that has polled MaxPolls
\* times: sleep(polltime) once more
ObtainRetryOn(p) ==
    /\ pc[p] = "o_scan"
    /\ ObtainScan(file).eof
    /\ CanRetry(retry_count[p], op[p].timeout, op[p].polltime)
    /\ MaxRetries(op[p].timeout, op[p].polltime) = INT_MAX
    /\ retry_count[p] = MaxPolls
    /\ retry_count' = [retry_count EXCEPT ![p] = MaxPolls - 1]
    /\ pc' = [pc EXCEPT ![p] = "o_sleep"]
    /\ UNCHANGED <<file, openable, lock, op, idx, repeat, exitcode, pending,
                   caller, child, ret, got, scans, openFailed, tried, holds,
                   file0, cycles>>

WaitingObtains == {ObtainOp(1, 0, 1), ObtainOp(1, 1, 1)}

WaitingReleases == {ReleaseOp(ks, 0) : ks \in {<<<<"a">>>>, <<<<"a">>, <<"b">>>>}}

ReservedFiles(n) ==
    {FileOfRecords(r) : r \in UNION {[1..k -> {SIGNAL_CHAR} \X Keys] : k \in 1..n}}

\* the steps of obtain and of release that a file that can be opened allows
WaitingStep(p) ==
    \/ ObtainOpen(p)
    \/ ObtainLock(p)
    \/ ObtainFound(p)
    \/ ObtainRetry(p)
    \/ ObtainRetryOn(p)
    \/ ObtainTimeOut(p)
    \/ ObtainWake(p)
    \/ ObtainUnlock(p)
    \/ ObtainClose(p)
    \/ ReleaseCheck(p)
    \/ ReleaseDelay(p)
    \/ ReleaseOpen(p)
    \/ ReleaseLock(p)
    \/ ReleaseKey(p)
    \/ ReleaseUnlock(p)
    \/ ReleaseClose(p)

InitWaiting ==
    \E f \in ReservedFiles(MaxRecs - 1), o \in WaitingObtains, r \in WaitingReleases :
        InitWith(f, [p \in Procs |-> IF p = 1 THEN o
                                     ELSE IF p = 2 THEN r ELSE NoOp], TRUE)

NextWaiting == \E p \in Procs : WaitingStep(p)

SpecWaiting ==
    /\ InitWaiting
    /\ [][NextWaiting]_vars
    /\ \A p \in Procs : WF_vars(WaitingStep(p))

(***************************************************************************)
(* A deferred release next to a caller that releases the same key at once  *)
(* and then obtains a key: process 2 is the release with delay > 0,        *)
(* process 1 the caller that goes from release to obtain and back.         *)
(***************************************************************************)
InitStale ==
    \E f \in Files(MaxRecs - 1), d \in 1..MaxDelay :
        InitWith(f, [p \in Procs |-> IF p = 1 THEN ReleaseOp(<<<<"a">>>>, 0)
                                     ELSE IF p = 2 THEN ReleaseOp(<<<<"a">>>>, d)
                                     ELSE NoOp], TRUE)

\* the obtain follows a release that returned NoError: its scan always
\* finds a Free record
NextStale ==
    \/ ObtainOpen(1)
    \/ ObtainOpenFails(1)
    \/ ObtainLock(1)
    \/ ObtainFound(1)
    \/ ObtainUnlock(1)
    \/ ObtainClose(1)
    \/ ReleaseNow(1)
    \/ RoundTripRelease
    \/ RoundTripObtain
    \/ ReleaseStep(2)
    \/ EnvChmod

SpecStale == InitStale /\ [][NextStale]_vars

(***************************************************************************)
(* The standalone program mresource.c in mode RELEASE with one key: its    *)
(* release_resource checks, forks, sleeps, opens, locks, unlocks and       *)
(* closes as the one of mresource_actions.c does, and differs in the scan  *)
(***************************************************************************)
\* the loop condition's last conjunct: strcmp(line+1, key) != 0
StandaloneSkips(line, key) == AfterStatus(line) # key

RECURSIVE StandaloneScanFrom(_, _, _)
\* do { file_pointer = ftell(file); checkline = fgets(...); strip the '\n' }
\* while (checkline != NULL && !feof(file) && strcmp(line+1, key) != 0);
StandaloneScanFrom(f, pos, key) ==
    LET r == FGets(f, pos)
        line == StripNewline(r.line)
    IN  IF ~r.null /\ ~r.eof /\ StandaloneSkips(line, key)
        THEN StandaloneScanFrom(f, r.next, key)
        ELSE [file_pointer |-> pos, line |-> line, eof |-> r.eof]

\* the scan of the file just opened, then exitcode = NOT_FOUND, or fseek,
\* fprintf(file, "%c", ' ') and exitcode = NO_ERROR
StandaloneReleaseKey(p) ==
    /\ pc[p] = "r_key"
    /\ LET r == StandaloneScanFrom(file, 0, op[p].keys[1])
       IN  /\ pending' = [pending EXCEPT
                  ![p] = IF r.eof THEN NoWrite
                         ELSE [off |-> r.file_pointer, ch |-> DESIGNAL_CHAR]]
           /\ exitcode' = [exitcode EXCEPT
                  ![p] = IF r.eof THEN NOT_FOUND ELSE NO_ERROR]
           /\ tried' = [tried EXCEPT
                  ![p] = Append(@, [off |-> IF r.eof THEN -1 ELSE r.file_pointer,
                                    seen |-> file])]
           /\ holds' = IF r.eof THEN holds
                       ELSE {h \in holds : h[2] # r.file_pointer}
    /\ idx' = [idx EXCEPT ![p] = @ + 1]
    /\ pc' = [pc EXCEPT ![p] = "r_unlock"]
    /\ UNCHANGED <<file, openable, lock, op, retry_count, repeat, caller,
                   child, ret, got, scans, openFailed, file0, cycles>>

StandaloneReleaseStep(p) ==
    \/ ReleaseCheck(p)
    \/ ReleaseCheckFails(p)
    \/ ReleaseDetach(p)
    \/ ReleaseDelay(p)
    \/ ReleaseOpen(p)
    \/ ReleaseOpenFails(p)
    \/ ReleaseLock(p)
    \/ StandaloneReleaseKey(p)
    \/ ReleaseUnlock(p)
    \/ ReleaseClose(p)

InitStandalone ==
    \E f \in Files(MaxRecs), k \in Keys, d \in 0..MaxDelay, b \in BOOLEAN :
        InitWith(f, Alone(ReleaseOp(<<k>>, d)), b)

NextStandalone ==
    \/ \E p \in Procs : StandaloneReleaseStep(p)
    \/ EnvChmod

SpecStandalone == InitStandalone /\ [][NextStandalone]_vars

(***************************************************************************)
(* The records of a file, for stating the properties: a record starts at   *)
(* offset 0 and after every line terminator but the last                   *)
(***************************************************************************)
RecordStarts(f) == {o \in 0..(Len(f) - 1) : o = 0 \/ f[o] = NEWLINE}

StatusAt(f, o) == f[o + 1]

LineEnd(f, o) == Min({j \in (o + 1)..Len(f) : f[j] = NEWLINE} \cup {Len(f) + 1})

KeyAt(f, o) == SubSeq(f, o + 2, LineEnd(f, o) - 1)

FreeStarts(f) == {o \in RecordStarts(f) : StatusAt(f, o) = DESIGNAL_CHAR}

ReservedStarts(f) == {o \in RecordStarts(f) : StatusAt(f, o) = SIGNAL_CHAR}

ReservedWithKey(f, key) == {o \in ReservedStarts(f) : KeyAt(f, o) = key}

FreeWithKey(f, key) == {o \in FreeStarts(f) : KeyAt(f, o) = key}

\* the two files have the same records but for the status characters
SameKeys(f, g) ==
    /\ Len(f) = Len(g)
    /\ RecordStarts(f) = RecordStarts(g)
    /\ \A o \in RecordStarts(f) : KeyAt(f, o) = KeyAt(g, o)

\* ceil(t / pt) for t >= 0, pt >= 1
Ceil(t, pt) == Min({n \in 0..t : n * pt >= t})

IsObtain(p) == op[p].type = "obtain"

IsRelease(p) == op[p].type = "release"

NoReleaser == \A p \in Procs : ~IsRelease(p)

Solo == \A p \in Procs : p # 1 => op[p] = NoOp

(***************************************************************************)
(* C1  Mutual exclusion of obtain: no record is held by two obtain calls   *)
(* at once (both were given it, and no release matched it since), and when *)
(* nothing is released no more obtains succeed than the file had Free      *)
(* records.                                                                *)
(***************************************************************************)
C1_MutualExclusion ==
    /\ \A h1 \in holds, h2 \in holds : h1[2] = h2[2] => h1[1] = h2[1]
    /\ (NoReleaser /\ \A p \in Procs : IsObtain(p) => op[p].nkeys = 1)
          => Cardinality({p \in Procs : got[p] # <<>>})
                <= Cardinality(FreeStarts(file0))

(***************************************************************************)
(* C2  Atomicity of scan-and-flip: the status character written for the    *)
(* matched record is in the file before the lock is released, so a process *)
(* that has a character still in its stdio buffer holds the lock.          *)
(***************************************************************************)
C2_FlushedBeforeUnlock ==
    \A p \in Procs : pending[p] # NoWrite => lock = p

(***************************************************************************)
(* C3  Round trip.  As claimed: when the release of the key just obtained  *)
(* has returned NoError, the obtained record is Free again and the file is *)
(* what it was before the first obtain, status characters included, for    *)
(* every file.                                                             *)
(***************************************************************************)
CycleDone ==
    /\ pc[1] = "done"
    /\ IsRelease(1)
    /\ ret[1] = <<NO_ERROR>>

\* a record before the first Free record has that record's key
EarlierDuplicate(f) ==
    /\ FreeStarts(f) # {}
    /\ \E o \in RecordStarts(f) :
          /\ o < Min(FreeStarts(f))
          /\ KeyAt(f, o) = KeyAt(f, Min(FreeStarts(f)))

C3_RoundTripAnyFile ==
    CycleDone =>
        /\ StatusAt(file, got[1][1].off) = DESIGNAL_CHAR
        /\ file = file0

(***************************************************************************)
(* C3 as amended: the cycle leaves the number of records, every key text   *)
(* and the number of Free records of every key as they were; the file is   *)
(* what it was before the first obtain, after any number of cycles, when   *)
(* no record before the first Free record has its key; when one has, the   *)
(* release frees the first such record instead, and the obtained record    *)
(* stays Reserved.                                                         *)
(***************************************************************************)
C3_RoundTrip ==
    CycleDone =>
        /\ SameKeys(file, file0)
        /\ \A k \in Keys :
              Cardinality(FreeWithKey(file, k)) = Cardinality(FreeWithKey(file0, k))
        /\ ~EarlierDuplicate(file0) =>
              /\ file = file0
              /\ StatusAt(file, got[1][1].off) = DESIGNAL_CHAR
        /\ EarlierDuplicate(file0) =>
              LET first == Min(FreeStarts(file0))
                  dup == Min(ReservedWithKey(file0, KeyAt(file0, first)))
              IN  file = WriteAt(WriteAt(file0, first, SIGNAL_CHAR), dup, DESIGNAL_CHAR)

C3_Witness ==
    /\ CycleDone
    /\ cycles = MaxCycles
    /\ ~EarlierDuplicate(file0)
    /\ \E o \in ReservedStarts(file0) : KeyAt(file0, o) = KeyAt(file0, got[1][1].off)
    /\ got[1][1].off > 0

(***************************************************************************)
(* C4  First fit: the record a successful obtain attempt reserves and      *)
(* returns is the Free record with the smallest offset of the file it      *)
(* read; its key and line terminator are what is printed, and the          *)
(* character waiting to be written is the Reserved mark at that offset.    *)
(***************************************************************************)
C4_FirstFit ==
    \A p \in Procs :
        /\ \A k \in 1..Len(got[p]) :
              LET e == got[p][k]
              IN  /\ FreeStarts(e.seen) # {}
                  /\ e.off = Min(FreeStarts(e.seen))
                  /\ e.text = KeyAt(e.seen, e.off) \o <<NEWLINE>>
        /\ (IsObtain(p) /\ pending[p] # NoWrite) =>
              pending[p] = [off |-> got[p][Len(got[p])].off, ch |-> SIGNAL_CHAR]
        /\ (IsObtain(p) /\ Solo /\ pc[p] = "done") =>
              \A k \in 1..Len(got[p]) : StatusAt(file, got[p][k].off) = SIGNAL_CHAR

\* the Free record taken is the last record of a file of MaxRecs records that
\* has an earlier Free record too, taken by the key before
C4_Witness ==
    /\ Len(got[1]) = 2
    /\ Cardinality(RecordStarts(file0)) = MaxRecs
    /\ StatusAt(file0, 0) = SIGNAL_CHAR
    /\ got[1][2].off = CHOOSE o \in RecordStarts(file0) :
                            \A o2 \in RecordStarts(file0) : o2 <= o
    /\ pc[1] = "done"

(***************************************************************************)
(* C5  Timeout boundary.  As claimed: an obtain with finite timeout > 0    *)
(* that ends a key with TimeOut has made exactly ceil(timeout /            *)
(* pollInterval) locked scans for it.                                      *)
(***************************************************************************)
TimedOut(p) ==
    /\ IsObtain(p)
    /\ exitcode[p] = TIME_OUT
    /\ op[p].timeout > 0
    /\ op[p].timeout <= INT_MAX - op[p].polltime

C5_AttemptsAreCeil ==
    \A p \in Procs :
        TimedOut(p) => scans[p] = Ceil(op[p].timeout, op[p].polltime)

(***************************************************************************)
(* C5 as amended: it has made exactly ceil(timeout / pollInterval) + 1     *)
(* locked scans, the first attempt and ceil(timeout / pollInterval)        *)
(* retries; with timeout = 3 and pollInterval = 2 that is 3 scans.         *)
(***************************************************************************)
C5_AttemptsAreCeilPlusOne ==
    \A p \in Procs :
        TimedOut(p) =>
            /\ scans[p] = Ceil(op[p].timeout, op[p].polltime) + 1
            /\ retry_count[p] = Ceil(op[p].timeout, op[p].polltime)
            /\ (op[p].timeout = 3 /\ op[p].polltime = 2) => scans[p] = 3

C5_Witness ==
    /\ TimedOut(1)
    /\ op[1].timeout = 3
    /\ op[1].polltime = 2
    /\ pc[1] = "done"
    /\ FreeStarts(file0) = {}
    /\ scans[1] = 3

(***************************************************************************)
(* C6  Partial multi-key obtain.  The case: one obtain call for 3 keys, on *)
(* its own, on a file with exactly 1 Free record, every fopen succeeding.  *)
(* As claimed for timeout = 0: once the scan for the second key has found  *)
(* no Free record the call ends with TimeOut, and it ends with exactly 1   *)
(* key reserved.                                                           *)
(***************************************************************************)
PartialCase ==
    /\ Solo
    /\ IsObtain(1)
    /\ op[1].nkeys = 3
    /\ Cardinality(FreeStarts(file0)) = 1
    /\ ~openFailed[1]

ScannedSecondKey ==
    /\ idx[1] = 1
    /\ scans[1] >= 1
    /\ pc[1] # "o_scan"

C6_TimeOutAtZero ==
    (PartialCase /\ op[1].timeout = 0) =>
        /\ ScannedSecondKey => exitcode[1] = TIME_OUT
        /\ pc[1] = "done" => (ret[1] = <<TIME_OUT>> /\ Len(got[1]) = 1)

(***************************************************************************)
(* C6 as amended: with a finite timeout > 0 the call makes at most         *)
(* ceil(timeout / pollInterval) + 1 scans for the second key and ends with *)
(* TimeOut, exactly 1 key reserved and left Reserved, no third key tried;  *)
(* with timeout = 0 the retry bound is INT_MAX: after reserving the 1 key  *)
(* the call goes on polling for the second and returns neither TimeOut nor *)
(* anything else while retry_count is below INT_MAX.                       *)
(***************************************************************************)
C6_PartialObtain ==
    PartialCase =>
        /\ Len(got[1]) <= 1
        /\ op[1].timeout > 0 =>
              /\ scans[1] <= Ceil(op[1].timeout, op[1].polltime) + 1
              /\ pc[1] = "done" =>
                    /\ ret[1] = <<TIME_OUT>>
                    /\ Len(got[1]) = 1
                    /\ idx[1] = 2
                    /\ ReservedStarts(file) = ReservedStarts(file0) \cup {got[1][1].off}
                    /\ got[1][1].off \in FreeStarts(file0)
        /\ (op[1].timeout = 0 /\ retry_count[1] < INT_MAX) =>
              /\ pc[1] # "done"
              /\ exitcode[1] # TIME_OUT
              /\ ScannedSecondKey => pc[1] \in {"o_sleep", "o_unlock", "o_close", "o_open", "o_lock"}

C6_Witness ==
    /\ PartialCase
    /\ op[1].timeout = 1
    /\ pc[1] = "done"
    /\ ret[1] = <<TIME_OUT>>
    /\ Len(got[1]) = 1
    /\ StatusAt(file, got[1][1].off) = SIGNAL_CHAR

(***************************************************************************)
(* C7  No rollback in multi-key obtain: when an obtain call has returned   *)
(* an error, the error is that of the key that failed (TimeOut after a     *)
(* scan, FileNotOpen after a failed fopen), every key before it was        *)
(* obtained, no key after it was tried, and, unless a release is running   *)
(* too, the records of the keys before it are still Reserved.              *)
(***************************************************************************)
ObtainFailed(p) ==
    /\ IsObtain(p)
    /\ pc[p] = "done"
    /\ ret[p] # <<NO_ERROR>>

C7_NoRollback ==
    \A p \in Procs :
        ObtainFailed(p) =>
            /\ ret[p] = <<exitcode[p]>>
            /\ exitcode[p] \in {TIME_OUT, FILE_NOT_OPEN}
            /\ exitcode[p] = TIME_OUT => scans[p] >= 1
            /\ exitcode[p] = FILE_NOT_OPEN => (scans[p] = 0 /\ openFailed[p])
            /\ idx[p] <= op[p].nkeys
            /\ Len(got[p]) = idx[p] - 1
            /\ NoReleaser =>
                  \A k \in 1..Len(got[p]) : StatusAt(file, got[p][k].off) = SIGNAL_CHAR

C7_Witness ==
    /\ ObtainFailed(1)
    /\ op[1].nkeys = 2
    /\ idx[1] = 1
    /\ Len(got[1]) = 0
    /\ ObtainFailed(2)
    /\ op[2].nkeys = 2
    /\ idx[2] = 2
    /\ Len(got[2]) = 1
    /\ ret[2] = <<FILE_NOT_OPEN>>
    /\ ret[1] = <<TIME_OUT>>

(***************************************************************************)
(* C8  Multi-key release result: every key is tried, the record matched    *)
(* for a key is the first Reserved record with exactly that key in the     *)
(* file as the earlier keys left it, and the call returns NotFound if some *)
(* key had no such record and NoError otherwise; on its own, it leaves the *)
(* file with exactly the matched records flipped to Free.                  *)
(***************************************************************************)
Matched(p) == {tried[p][k].off : k \in 1..Len(tried[p])} \ {-1}

Freed(f, offs) ==
    [j \in 1..Len(f) |-> IF (j - 1) \in offs THEN DESIGNAL_CHAR ELSE f[j]]

ReleaseRan(p) ==
    /\ IsRelease(p)
    /\ pc[p] = "done"
    /\ exitcode[p] # FILE_NOT_OPEN
    /\ ret[p] # <<FILE_NOT_OPEN>>

C8_ReleaseResult ==
    \A p \in Procs :
        /\ \A k \in 1..Len(tried[p]) :
              LET e == tried[p][k]
                  m == ReservedWithKey(e.seen, op[p].keys[k])
              IN  e.off = IF m = {} THEN -1 ELSE Min(m)
        /\ ReleaseRan(p) =>
              /\ Len(tried[p]) = op[p].nkeys
              /\ exitcode[p] = IF \E k \in 1..Len(tried[p]) : tried[p][k].off = -1
                               THEN NOT_FOUND ELSE NO_ERROR
              /\ op[p].delay = 0 => ret[p] = <<exitcode[p]>>
              /\ Solo => file = Freed(file0, Matched(p))

\* the first of two keys is not found and the second is
C8_Witness ==
    /\ ReleaseRan(1)
    /\ op[1].delay = 0
    /\ Len(tried[1]) = 2
    /\ tried[1][1].off = -1
    /\ tried[1][2].off > 0
    /\ ret[1] = <<NOT_FOUND>>

(***************************************************************************)
(* C9  Release of keys that have no Reserved record in the file, by a call *)
(* on its own: the file is never changed; with delay = 0 the call returns  *)
(* NotFound; with delay > 0 the invoking process returns NoError, and the  *)
(* NotFound of the detached process is returned to nobody.                 *)
(***************************************************************************)
NothingToRelease ==
    /\ Solo
    /\ IsRelease(1)
    /\ \A k \in 1..Len(op[1].keys) : ReservedWithKey(file0, op[1].keys[k]) = {}

C9_ReleaseAbsent ==
    NothingToRelease =>
        /\ file = file0
        /\ (op[1].delay = 0 /\ ReleaseRan(1)) => ret[1] = <<NOT_FOUND>>
        /\ (op[1].delay > 0 /\ ret[1] # NoRet /\ ret[1] # <<FILE_NOT_OPEN>>) =>
              ret[1] = <<NO_ERROR>>
        /\ (op[1].delay > 0 /\ ReleaseRan(1)) => exitcode[1] = NOT_FOUND

\* a delayed release of a key whose only record is already Free: the invoking
\* process has returned NoError and the detached process has found nothing
C9_Witness ==
    /\ NothingToRelease
    /\ op[1].delay > 0
    /\ FreeWithKey(file0, op[1].keys[1]) # {}
    /\ ReleaseRan(1)
    /\ ret[1] = <<NO_ERROR>>
    /\ exitcode[1] = NOT_FOUND

(***************************************************************************)
(* C10  A failed fopen ends obtain: once an fopen of an obtain call has    *)
(* failed, on the first attempt or on a later one, the call has returned   *)
(* FileNotOpen and makes no other attempt.                                 *)
(***************************************************************************)
C10_OpenFailureReturns ==
    \A p \in Procs :
        (IsObtain(p) /\ openFailed[p]) =>
            /\ pc[p] = "done"
            /\ ret[p] = <<FILE_NOT_OPEN>>

(***************************************************************************)
(* C11  Release precondition check: when the file cannot be opened at the  *)
(* time release checks it, the call returns FileNotOpen from that step,    *)
(* with delay = 0 and with delay > 0 alike: no process has been forked,    *)
(* the delay has not been slept, and nothing of the file is changed or     *)
(* waiting to be written.  With delay > 0 this is the only FileNotOpen the *)
(* caller can get.                                                         *)
(***************************************************************************)
CheckedUnopenable(p) ==
    /\ IsRelease(p)
    /\ pc[p] = "r_check"
    /\ ~openable
    /\ pc'[p] # "r_check"

RefusedAtCheck(p) ==
    /\ IsRelease(p)
    /\ pc[p] = "done"
    /\ ret[p] = <<FILE_NOT_OPEN>>
    /\ tried[p] = <<>>
    /\ exitcode[p] = NO_ERROR

C11_CheckBeforeDelay ==
    /\ [][\A p \in Procs :
            CheckedUnopenable(p) =>
                /\ pc'[p] = "done"
                /\ ret'[p] = <<FILE_NOT_OPEN>>
                /\ caller'[p] = "returned"
                /\ child'[p] = "none"
                /\ file' = file
                /\ pending'[p] = NoWrite]_vars
    /\ [](\A p \in Procs :
            (IsRelease(p) /\ op[p].delay > 0 /\ ret[p] = <<FILE_NOT_OPEN>>) =>
                (RefusedAtCheck(p) /\ child[p] = "none" /\ pending[p] = NoWrite))

\* a release with delay > 0 of a key that has a Reserved record is refused
C11_Witness ==
    /\ RefusedAtCheck(1)
    /\ op[1].delay > 0
    /\ child[1] = "none"
    /\ ReservedWithKey(file0, op[1].keys[1]) # {}
    /\ file = file0

(***************************************************************************)
(* C12  Writes under the lock: every step that changes the bytes of the    *)
(* file (a truncation or a write of obtain, release, create or append) is  *)
(* taken by a process that holds the whole-file lock in that step.         *)
(***************************************************************************)
Moves(p) == pc'[p] # pc[p] \/ pending'[p] # pending[p] \/ idx'[p] # idx[p]

C12_WritesUnderLock ==
    [][file' # file => \E p \in Procs : Moves(p) /\ lock = p]_vars

(***************************************************************************)
(* C13  The lock is always released and never shared: the process that     *)
(* holds the lock is inside the locked section of obtain, release or       *)
(* append, at most one process is inside such a section, and a process     *)
(* that is about to open the file (again), is closing it or has returned   *)
(* does not hold the lock, whichever way its scan ended.                   *)
(***************************************************************************)
LockedSection == {"o_scan", "o_sleep", "o_unlock", "r_key", "r_unlock",
                  "a_write", "a_unlock"}

C13_LockReleased ==
    /\ \A p \in Procs : (lock = p) <=> (pc[p] \in LockedSection)
    /\ Cardinality({p \in Procs : pc[p] \in LockedSection}) <= 1
    /\ \A p \in Procs :
          pc[p] \in {"done", "idle", "o_open", "o_close", "r_open", "r_close",
                     "a_open", "a_close"} => lock # p

\* an obtainer that found no Free record and slept is about to open the file
\* again while an append holds the lock, and later returns TimeOut
C13_Witness ==
    /\ IsObtain(1)
    /\ pc[1] = "o_open"
    /\ retry_count[1] = 1
    /\ scans[1] = 1
    /\ lock = 2
    /\ pc[2] = "a_write"

(***************************************************************************)
(* C14  No sleep under the lock: a process that sleeps pollInterval        *)
(* between two polling attempts does not hold the whole-file lock (it has  *)
(* released it and closed the file before going to sleep).                 *)
(***************************************************************************)
C14_NoSleepUnderLock ==
    \A p \in Procs : pc[p] = "o_sleep" => lock # p

(***************************************************************************)
(* C15  A record whose leading character is neither ' ' nor '!' matches    *)
(* neither scan: the record an obtain attempt takes is a Free record of    *)
(* the file it read, the record a release matches is a Reserved one, and   *)
(* such a record has the same leading character in every later state.      *)
(***************************************************************************)
OtherStarts(f) == {o \in RecordStarts(f) : StatusAt(f, o) \notin Statuses}

C15_CorruptNeverMatches ==
    /\ \A p \in Procs : \A k \in 1..Len(got[p]) :
          StatusAt(got[p][k].seen, got[p][k].off) = DESIGNAL_CHAR
    /\ \A p \in Procs : \A k \in 1..Len(tried[p]) :
          tried[p][k].off # -1 =>
              StatusAt(tried[p][k].seen, tried[p][k].off) = SIGNAL_CHAR
    /\ \A o \in OtherStarts(file0) : StatusAt(file, o) = StatusAt(file0, o)

(***************************************************************************)
(* C16  Multi-key release is atomic: while a release with delay = 0 and    *)
(* several keys has some of its matched records already Free in the file   *)
(* and another still Reserved with its flip waiting to be written, no      *)
(* other process is at a scan of the file.                                 *)
(***************************************************************************)
HalfReleased(p) ==
    /\ IsRelease(p)
    /\ op[p].delay = 0
    /\ op[p].nkeys >= 2
    /\ pending[p] # NoWrite
    /\ StatusAt(file, pending[p].off) = SIGNAL_CHAR
    /\ \E k \in 1..Len(tried[p]) :
          /\ tried[p][k].off \notin {-1, pending[p].off}
          /\ StatusAt(file, tried[p][k].off) = DESIGNAL_CHAR

C16_ReleaseAtomic ==
    \A p \in Procs, q \in Procs :
        (p # q /\ pc[q] \in {"o_scan", "r_key"}) => ~HalfReleased(p)

(***************************************************************************)
(* C17  Append is safe on a live file: the step in which an append call    *)
(* writes puts the lines of its keys, Free and in the given order, after   *)
(* all the bytes the file holds then, so every existing record keeps its   *)
(* status and its key (a Reserved record stays Reserved) and there is one  *)
(* new Free record per key; no other step of the call changes the file;    *)
(* this whatever the other processes (obtain, release) do in between.      *)
(***************************************************************************)
IsAppend(p) == op[p].type = "append"

AppendWrites(p) == IsAppend(p) /\ pc[p] = "a_close" /\ pc'[p] = "done"

WellFormed(f) == f = <<>> \/ f[Len(f)] = NEWLINE

C17_AppendOnly ==
    [][\A p \in Procs :
          /\ AppendWrites(p) =>
                /\ file' = file \o KeyLines(op[p].keys)
                /\ SubSeq(file', 1, Len(file)) = file
                /\ \A o \in RecordStarts(file) :
                      StatusAt(file', o) = StatusAt(file, o)
                /\ WellFormed(file) =>
                      /\ \A o \in RecordStarts(file) : KeyAt(file', o) = KeyAt(file, o)
                      /\ ReservedStarts(file') = ReservedStarts(file)
                      /\ Cardinality(RecordStarts(file')) =
                            Cardinality(RecordStarts(file)) + op[p].nkeys
                      /\ \A o \in RecordStarts(file') \ RecordStarts(file) :
                            o >= Len(file) /\ StatusAt(file', o) = DESIGNAL_CHAR
                /\ ret'[p] = <<NO_ERROR>>
          /\ (IsAppend(p) /\ pc'[p] # pc[p] /\ ~AppendWrites(p)) => file' = file]_vars

\* an append of two keys has returned; the other process obtained a key of
\* the file in the meantime, and a record Reserved from the start is Reserved
C17_Witness ==
    /\ IsAppend(1)
    /\ op[1].nkeys = 2
    /\ pc[1] = "done"
    /\ IsObtain(2)
    /\ pc[2] = "done"
    /\ Len(got[2]) = 1
    /\ got[2][1].seen = file0
    /\ ReservedStarts(file0) # {}
    /\ file = WriteAt(file0, got[2][1].off, SIGNAL_CHAR) \o KeyLines(op[1].keys)

(***************************************************************************)
(* C18  Append reports an unopenable file: once an fopen of an append call *)
(* has failed, the call has returned FileNotOpen and tries no more.        *)
(***************************************************************************)
C18_AppendOpenFailureReturns ==
    \A p \in Procs :
        (IsAppend(p) /\ openFailed[p]) =>
            /\ pc[p] = "done"
            /\ ret[p] = <<FILE_NOT_OPEN>>

(***************************************************************************)
(* C19  Create is a full overwrite: when a create call on its own has      *)
(* returned NoError, the file is exactly the lines of its keys, one Free   *)
(* record per key in the given order, whatever the file held before; after *)
(* a second create with another list of keys only that list is left.       *)
(***************************************************************************)
IsCreate(p) == op[p].type = "create"

Created(p) ==
    /\ IsCreate(p)
    /\ pc[p] = "done"
    /\ ret[p] = <<NO_ERROR>>

C19_CreateOverwrites ==
    (Solo /\ Created(1)) =>
        /\ file = KeyLines(op[1].keys)
        /\ file = FileOfRecords([k \in 1..op[1].nkeys |-> <<DESIGNAL_CHAR, op[1].keys[k]>>])
        /\ Cardinality(RecordStarts(file)) = op[1].nkeys
        /\ ReservedStarts(file) = {}

\* the second create, of key b alone, after a create of keys a and b on a
\* file that held Reserved records
C19_Witness ==
    /\ Solo
    /\ Created(1)
    /\ cycles = 1
    /\ op[1].keys = <<<<"b">>>>
    /\ ReservedStarts(file0) # {}
    /\ file = FormatLine(DESIGNAL_CHAR, <<"b">>)

(***************************************************************************)
(* C20  Deferred release is fire-and-forget: for a release with delay > 0  *)
(* that passed the check of the file, nothing is scanned or written before *)
(* the delay has elapsed; when it has, the invoking process has returned   *)
(* NoError already; and the detached process comes to its end, where,      *)
(* unless its fopen failed, it has flipped the first Reserved record with  *)
(* the key to Free if the file it read had one.                            *)
(***************************************************************************)
Deferred(p) == IsRelease(p) /\ op[p].delay > 0

BeforeDelayEnds(p) == pc[p] \in {"r_check", "r_fork", "r_fork2", "r_delay"}

DeferredEnd(p) ==
    /\ pc[p] = "done"
    /\ pending[p] = NoWrite
    /\ \/ exitcode[p] = FILE_NOT_OPEN /\ tried[p] = <<>>
       \/ /\ Len(tried[p]) = 1
          /\ LET m == ReservedWithKey(tried[p][1].seen, op[p].keys[1])
             IN  IF m = {}
                 THEN tried[p][1].off = -1 /\ exitcode[p] = NOT_FOUND
                 ELSE /\ tried[p][1].off = Min(m)
                      /\ exitcode[p] = NO_ERROR
                      /\ StatusAt(file, Min(m)) = DESIGNAL_CHAR

CeilDiv(t, pt) == (t \div pt) + (IF t % pt = 0 THEN 0 ELSE 1)

C21_DefaultWaits ==
    \A p \in Procs :
        (IsObtain(p) /\ op[p].timeout >= 1) =>
            /\ MaxRetries(op[p].timeout, op[p].polltime) >= 0
            /\ MaxRetries(op[p].timeout, op[p].polltime)
                  >= CeilDiv(op[p].timeout, op[p].polltime)
            /\ (op[p].timeout = INT_MAX
                  /\ retry_count[p] < CeilDiv(INT_MAX, op[p].polltime))
                  => exitcode[p] # TIME_OUT

(***************************************************************************)
(* C22  Frame of obtain and release: no step changes the number of         *)
(* records, their order or a key text; the write of a successful per-key   *)
(* obtain changes exactly one record, from Free to Reserved; the write of  *)
(* a matched release key changes exactly one record, from Reserved to      *)
(* Free; and the file changes in no other step (a scan that finds nothing  *)
(* leaves nothing to write).                                               *)
(***************************************************************************)
WritesOut(p) == pending[p] # NoWrite /\ pending'[p] # pending[p]

C22_Frame ==
    [][/\ SameKeys(file, file')
       /\ \A p \in Procs :
             (IsObtain(p) /\ WritesOut(p)) =>
                 /\ StatusAt(file, pending[p].off) = DESIGNAL_CHAR
                 /\ file' = WriteAt(file, pending[p].off, SIGNAL_CHAR)
       /\ \A p \in Procs :
             (IsRelease(p) /\ WritesOut(p)) =>
                 /\ StatusAt(file, pending[p].off) = SIGNAL_CHAR
                 /\ file' = WriteAt(file, pending[p].off, DESIGNAL_CHAR)
       /\ file' # file => \E p \in Procs : WritesOut(p)]_vars

(***************************************************************************)
(* C23  Progress of a blocked obtainer: on a file that stays openable, an  *)
(* obtain without time limit that has polled at least once and is still    *)
(* running when the file holds a Free record (a release has freed it)      *)
(* comes to its end with NoError and the key of a record that it has made  *)
(* Reserved; no other obtain runs.                                         *)
(***************************************************************************)
Unbounded(p) ==
    IsObtain(p) /\ MaxRetries(op[p].timeout, op[p].polltime) = INT_MAX

Blocked(p) == Unbounded(p) /\ retry_count[p] >= 1 /\ pc[p] # "done"

Succeeded(p) ==
    /\ pc[p] = "done"
    /\ ret[p] = <<NO_ERROR>>
    /\ Len(got[p]) = 1
    /\ StatusAt(file, got[p][1].off) = SIGNAL_CHAR

C23_BlockedObtainerProgress ==
    \A p \in Procs :
        (Blocked(p) /\ FreeStarts(file) # {}) ~> Succeeded(p)

\* the obtain polled a file without a Free record and was given the record
\* that the release freed
C23_Witness ==
    /\ Unbounded(1)
    /\ FreeStarts(file0) = {}
    /\ retry_count[1] >= 1
    /\ Succeeded(1)
    /\ IsRelease(2) /\ pc[2] = "done"
    /\ \E i \in 1..Len(tried[2]) : tried[2][i].off = got[1][1].off

(***************************************************************************)
(* C24  Progress of release under polling: with every process going on     *)
(* running (weak fairness of each process's steps), a release with delay 0 *)
(* that has not ended while an obtain is polling a file with no Free       *)
(* record comes to hold the lock and to its end.                           *)
(***************************************************************************)
Polling(q) ==
    /\ IsObtain(q)
    /\ pc[q] # "done"
    /\ pc[q] = "o_sleep" \/ retry_count[q] >= 1

SetsTimeOut(p) ==
    /\ IsObtain(p)
    /\ pc[p] = "o_scan"
    /\ pc'[p] # "o_scan"
    /\ exitcode'[p] = TIME_OUT

Slept(p) == retry_count[p] * op[p].polltime

C25_WaitBeforeTimeOut ==
    [][\A p \in Procs :
          (SetsTimeOut(p) /\ op[p].timeout > 0) =>
              /\ Slept(p) >= op[p].timeout
              /\ Slept(p) - op[p].polltime < op[p].timeout
              /\ FreeStarts(file) = {}]_vars

(***************************************************************************)
(* C26  A release frees only the reservation it was issued for: a caller   *)
(* that has obtained a key after the key was freed by a release with no    *)
(* delay, and has not released it, finds its record Reserved, also when a  *)
(* release of the same key that was scheduled with a delay before all      *)
(* this has been carried out in the meantime.                              *)
(***************************************************************************)
Holder(p) == IsObtain(p) /\ pc[p] = "done" /\ ret[p] = <<NO_ERROR>>

C26_ReleaseOwnReservation ==
    \A p \in Procs :
        Holder(p) =>
            \A i \in 1..Len(got[p]) :
                StatusAt(file, got[p][i].off) = SIGNAL_CHAR

(***************************************************************************)
(* C27  Detach protocol of a release with delay > 0: the invoking process  *)
(* has returned (NoError, unless the check of the file refused) only when  *)
(* the first child has ended, and it can return as soon as that child has  *)
(* ended, wherever the detached process is; the steps of the invoking      *)
(* process and of the first child leave the file, the lock and the buffer  *)
(* alone; the lock is taken by the detached process only, once, before any *)
(* key has been looked for, and every key is looked for once.              *)
(***************************************************************************)
ForkStep(p) == caller'[p] # caller[p] \/ child'[p] # child[p]

TakesLock(p) == lock' = p /\ lock # p

C27_DetachProtocol ==
    /\ [](\A p \in Procs :
            Deferred(p) =>
                /\ (caller[p] = "returned" /\ ~RefusedAtCheck(p)) =>
                      (child[p] = "exited" /\ ret[p] = <<NO_ERROR>>)
                /\ (caller[p] = "waiting" /\ child[p] = "exited") =>
                      ENABLED ReleaseWait(p)
                /\ (pc[p] = "done" /\ ~RefusedAtCheck(p)
                                   /\ exitcode[p] # FILE_NOT_OPEN) =>
                      Len(tried[p]) = op[p].nkeys)
    /\ [][\A p \in Procs :
            Deferred(p) =>
                /\ ForkStep(p) =>
                      /\ file' = file /\ lock' = lock
                      /\ pending' = pending /\ tried' = tried
                /\ TakesLock(p) =>
                      /\ pc[p] = "r_lock" /\ tried[p] = <<>>
                      /\ child[p] # "none"]_vars

\* the invoking process returned NoError while the detached process had not
\* yet opened the file, and the detached process has since looked for its
\* two keys and freed both
C27_Witness ==
    /\ Deferred(1)
    /\ caller[1] = "returned"
    /\ child[1] = "exited"
    /\ ret[1] = <<NO_ERROR>>
    /\ pc[1] = "done"
    /\ op[1].nkeys = 2
    /\ Len(tried[1]) = 2
    /\ tried[1][1].off >= 0
    /\ tried[1][2].off >= 0
    /\ tried[1][1].off # tried[1][2].off
    /\ StatusAt(file, tried[1][1].off) = DESIGNAL_CHAR
    /\ StatusAt(file, tried[1][2].off) = DESIGNAL_CHAR

(***************************************************************************)
(* C28  The release of the standalone program matches only a record that   *)
(* is Reserved: when it ends with NoError it has made Free a record that   *)
(* was Reserved and has its key, and when the first record with its key in *)
(* file order is Free it ends with NotFound.                               *)
(***************************************************************************)
StandaloneRan(p) == IsRelease(p) /\ pc[p] = "done" /\ Len(tried[p]) = 1

C28_StandaloneMatchesReserved ==
    \A p \in Procs :
        StandaloneRan(p) =>
            LET seen == tried[p][1].seen
                key == op[p].keys[1]
                any == ReservedWithKey(seen, key) \cup FreeWithKey(seen, key)
            IN  /\ exitcode[p] = NO_ERROR =>
                      /\ tried[p][1].off \in ReservedWithKey(seen, key)
                      /\ StatusAt(file, tried[p][1].off) = DESIGNAL_CHAR
                /\ (any # {} /\ Min(any) \in FreeWithKey(seen, key)) =>
                      exitcode[p] = NOT_FOUND

=============================================================================
